---- MODULE Spec2Model ----
(***************************************************************************)
(* Model of blockchain_money_transaction.py: signed transactions, blocks   *)
(* sealed by proof of work, and the in-memory ledger (Blockchain) with its *)
(* pending pool, balance replay and chain validation.                      *)
(*                                                                         *)
(* Abstractions.  ECDSA: a signature is the pair (signing key, message);   *)
(* verification succeeds exactly when the key is the private half of the   *)
(* public key and the message is the one verified.  SHA-256: a digest is   *)
(* its first HexLen hex digits, a deterministic function of the hashed     *)
(* content, together with the content itself, so that two digests are      *)
(* equal exactly when the hashed contents are equal (collision-free).      *)
(* json.dumps(..., sort_keys=True) is the tuple of the values in the order *)
(* of the sorted keys.  time.time() returns any of the readings Times.      *)
(***************************************************************************)
EXTENDS Integers, Sequences, FiniteSets

VARIABLES
    chain,                  \* Blockchain.chain
    pending_transactions,   \* Blockchain.pending_transactions
    difficulty,             \* Blockchain.difficulty
    mining_reward,          \* Blockchain.mining_reward
    tx,                     \* the Transaction object the client holds / passed to the last call
    ret,                    \* operation, outcome and printed diagnosis of the last call
    overspent,              \* the last transaction the balance check refused, and the chain length then
    tampered                \* index of the block mutated from outside, -1 when none was

vars == <<chain, pending_transactions, difficulty, mining_reward, tx, ret,
          overspent, tampered>>

----------------------------------------------------------------------------
(* Bounds and input sets *)

MaxChain == 3          \* blocks in the chain, genesis included
MaxPending == 2        \* transactions waiting in the pool
MaxClock == 0          \* largest reading of time.time() on the ledger's side
MaxDifficulty == 1     \* largest difficulty a ledger is constructed with
HexLen == MaxDifficulty + 1     \* leading hex digits of the digest that are modelled

Difficulties == 0..MaxDifficulty
Rewards == {50}
Amounts == {-10, 10}
Times == 0..MaxClock

SYSTEM == "SYSTEM"
\* private keys and the public key (address) each one derives
PrivateKeys == {1, 2}
PublicKeyOf(sk) == IF sk = 1 THEN "A" ELSE IF sk = 2 THEN "B" ELSE "M"
Wallets == {"A", "B"}
Miners == {"M"}
Senders == {"A", ""}
Recipients == {"B", ""}
MintRecipients == {"A"}
MintAmounts == {100}
Addresses == {"A", "B", "M", SYSTEM}

----------------------------------------------------------------------------
(* Transaction *)

NoSignature == [kind |-> "None", key |-> 0, msg |-> <<>>]
BadSignature == [kind |-> "bad", key |-> 0, msg |-> <<>>]

\* now is the reading of time.time() in the constructor
Transaction(sender_pub, recipient_pub, amount, signature, now) ==
    [sender_pub |-> sender_pub, recipient_pub |-> recipient_pub, amount |-> amount,
     signature |-> signature, timestamp |-> now]

NoTx == Transaction("", "", 0, NoSignature, 0)

\* a serialization that leaves the timestamp out
to_dict_NoTimestamp(t) == <<t.amount, t.recipient_pub, t.sender_pub>>

\* json.dumps(self.to_dict(), sort_keys=True): amount, recipient_pub, sender_pub, timestamp
to_dict(t) == <<t.amount, t.recipient_pub, t.sender_pub, t.timestamp>>

Sign(sk, message) == [kind |-> "hex", key |-> sk, msg |-> message]

sign_transaction(t, sk) == [t EXCEPT !.signature = Sign(sk, to_dict(t))]

\* VerifyingKey.from_string(unhexlify(pub)).verify(unhexlify(sig), message);
\* TRUE when it returns, FALSE when it raises
Verify(pub, sig, message) ==
    /\ pub \in {PublicKeyOf(k) : k \in PrivateKeys \cup {3}}
    /\ sig.kind = "hex"
    /\ PublicKeyOf(sig.key) = pub
    /\ sig.msg = message

is_valid(t) ==
    IF t.sender_pub = SYSTEM THEN TRUE
    ELSE IF t.signature.kind = "None" THEN FALSE
    ELSE Verify(t.sender_pub, t.signature, to_dict(t))

----------------------------------------------------------------------------
(* Block *)

Pow16(n) == IF n = 0 THEN 1 ELSE IF n = 1 THEN 16 ELSE IF n = 2 THEN 256 ELSE 4096

AddrNum(a) ==
    IF a = "A" THEN 1 ELSE IF a = "B" THEN 2 ELSE IF a = "M" THEN 3
    ELSE IF a = SYSTEM THEN 5 ELSE 0

\* t is a serialized transaction: amount, recipient_pub, sender_pub, signature, timestamp
TxNum(t) ==
    (t[1] + 1000) + 7 * AddrNum(t[2]) + 3 * AddrNum(t[3]) + 11 * t[4].key + 5 * t[5]

RECURSIVE TxsNum(_)
TxsNum(txs) == IF txs = <<>> THEN 0 ELSE TxNum(Head(txs)) + 13 * (TxsNum(Tail(txs)) % 64)

RECURSIVE DigitsNum(_)
DigitsNum(ds) == IF ds = <<>> THEN 0 ELSE Head(ds) + 3 * DigitsNum(Tail(ds))

\* the block string: index, nonce, previous_hash, timestamp, transactions (sorted keys),
\* each transaction as to_dict() | {"signature": ...}
BlockString(b) ==
    <<b.index, b.nonce, b.previous_hash, b.timestamp,
      [i \in 1..Len(b.transactions) |->
          <<b.transactions[i].amount, b.transactions[i].recipient_pub,
            b.transactions[i].sender_pub, b.transactions[i].signature,
            b.transactions[i].timestamp>>]>>

\* hashlib.sha256(s).hexdigest()
Sha256(s) ==
    LET seed == 7 * s[1] + DigitsNum(s[3].digits) + 5 * s[4] + TxsNum(s[5]) + 9
    IN  [digits |-> [i \in 1..HexLen |-> (seed * i + (s[2] \div Pow16(i - 1))) % 16],
         body |-> s]

calculate_hash(b) == Sha256(BlockString(b))

\* the genesis block's previous_hash, the string '0'
ZeroHash == [digits |-> <<0>>, body |-> <<>>]

startswith(h, n) == n <= Len(h.digits) /\ \A i \in 1..n : h.digits[i] = 0

Block(index, transactions, previous_hash, now) ==
    LET b == [index |-> index, timestamp |-> now, transactions |-> transactions,
              previous_hash |-> previous_hash, nonce |-> 0, hash |-> ZeroHash]
    IN  [b EXCEPT !.hash = calculate_hash(b)]

\* the loop with its two statements swapped: the hash is computed before the nonce
\* is incremented
RECURSIVE mine_SwappedLines(_, _)
mine_SwappedLines(b, d) ==
    IF startswith(b.hash, d) THEN b
    ELSE mine_SwappedLines([b EXCEPT !.hash = calculate_hash(b), !.nonce = b.nonce + 1], d)

\* the block with nonce n and the hash of its fields
Sealed(b, n) ==
    [b EXCEPT !.nonce = n, !.hash = calculate_hash([b EXCEPT !.nonce = n])]

\* the next k iterations of the loop, which try the nonces n, n + 1, ... in turn:
\* the first nonce whose hash starts with d zeros, -1 when none of the k does
RECURSIVE Scan(_, _, _, _)
Scan(b, n, k, d) ==
    IF k = 0 THEN -1
    ELSE IF startswith(calculate_hash([b EXCEPT !.nonce = n]), d) THEN n
    ELSE Scan(b, n + 1, k - 1, d)

\* the loop from nonce n on, taken in runs of 16 iterations
RECURSIVE Search(_, _, _)
Search(b, n, d) ==
    LET found == Scan(b, n, 16, d)
    IN  IF found >= 0 THEN found ELSE Search(b, n + 16, d)

\* the loop with its test at the end: the nonce is incremented at least once
mine_TestLast(b, d) == Sealed(b, Search(b, b.nonce + 1, d))

\* while not self.hash.startswith(target): self.nonce += 1; self.hash = calculate_hash()
mine(b, d) ==
    IF startswith(b.hash, d) THEN b ELSE Sealed(b, Search(b, b.nonce + 1, d))

----------------------------------------------------------------------------
(* Blockchain *)

create_genesis_block(now) == Block(0, <<>>, ZeroHash, now)

\* chain[0] in place of chain[-1]
get_latest_block_First(c) == c[1]

get_latest_block(c) == c[Len(c)]

\* the two tests of the balance loop joined by elif: a transaction is not credited
\* to the address it is debited from
RECURSIVE BalanceOver_ElifCredit(_, _)
BalanceOver_ElifCredit(txs, address) ==
    IF txs = <<>> THEN 0
    ELSE LET t == Head(txs)
         IN  (IF t.sender_pub = address THEN 0 - t.amount
              ELSE IF t.recipient_pub = address THEN t.amount ELSE 0)
               + BalanceOver_ElifCredit(Tail(txs), address)

\* the effect of one list of transactions on the balance of an address
RECURSIVE BalanceOver(_, _)
BalanceOver(txs, address) ==
    IF txs = <<>> THEN 0
    ELSE LET t == Head(txs)
         IN  (IF t.recipient_pub = address THEN t.amount ELSE 0)
               - (IF t.sender_pub = address THEN t.amount ELSE 0)
               + BalanceOver(Tail(txs), address)

RECURSIVE ChainBalance(_, _)
ChainBalance(c, address) ==
    IF c = <<>> THEN 0
    ELSE BalanceOver(Head(c).transactions, address) + ChainBalance(Tail(c), address)

\* the balance with the second loop, over the pending pool, left out
BalanceIn_ChainOnly(c, pool, address) == ChainBalance(c, address)

BalanceIn(c, pool, address) == ChainBalance(c, address) + BalanceOver(pool, address)

get_balance_of_address(address) == BalanceIn(chain, pending_transactions, address)

\* the loop of is_chain_valid from block i on: the result, and the index and
\* diagnosis it prints on failure
RECURSIVE ValidFrom(_, _)
ValidFrom(c, i) ==
    IF i > Len(c) - 1 THEN [ok |-> TRUE, at |-> -1, why |-> "none"]
    ELSE LET current == c[i + 1]
             previous == c[i]
         IN  IF current.hash # calculate_hash(current)
                 THEN [ok |-> FALSE, at |-> i, why |-> "hash"]
             ELSE IF current.previous_hash # previous.hash
                 THEN [ok |-> FALSE, at |-> i, why |-> "linkage"]
             ELSE IF \E k \in 1..Len(current.transactions) :
                         ~is_valid(current.transactions[k])
                 THEN [ok |-> FALSE, at |-> i, why |-> "transaction"]
             ELSE ValidFrom(c, i + 1)

is_chain_valid(c) == ValidFrom(c, 1)

\* what a call leaves its caller: the operation and its address argument, the value
\* returned or the exception raised, a returned number or printed index, and the
\* check that failed
Ret(op, arg, val, num, cause) ==
    [op |-> op, arg |-> arg, val |-> val, num |-> num, cause |-> cause]

NoOverspent == [set |-> FALSE, tx |-> NoTx, at |-> 0]

\* add_transaction without its balance check
AddOutcome_NoBalanceCheck(t) ==
    IF t.sender_pub = "" \/ t.recipient_pub = ""
        THEN [val |-> "ValueError", cause |-> "malformed"]
    ELSE IF ~is_valid(t)
        THEN [val |-> "False", cause |-> "signature"]
    ELSE [val |-> "True", cause |-> "none"]

\* the outcome of add_transaction(t) in the current state and the check that refused it
AddOutcome(t) ==
    IF t.sender_pub = "" \/ t.recipient_pub = ""
        THEN [val |-> "ValueError", cause |-> "malformed"]
    ELSE IF ~is_valid(t)
        THEN [val |-> "False", cause |-> "signature"]
    ELSE IF t.sender_pub # SYSTEM /\ get_balance_of_address(t.sender_pub) < t.amount
        THEN [val |-> "False", cause |-> "balance"]
    ELSE [val |-> "True", cause |-> "none"]

\* the claim of overspend rejection speaks of these transactions
Overspends(t) ==
    t.sender_pub # SYSTEM /\ t.amount > get_balance_of_address(t.sender_pub)

\* add_transaction appending before the balance check
add_transaction_AppendEarly(t) ==
    LET out == AddOutcome(t)
        appended == out.cause \in {"none", "balance"}
    IN  /\ appended => Len(pending_transactions) < MaxPending
        /\ pending_transactions' =
               IF appended THEN Append(pending_transactions, t)
               ELSE pending_transactions
        /\ tx' = t
        /\ ret' = Ret("add_transaction", "", out.val, 0, out.cause)
        /\ UNCHANGED <<chain, difficulty, mining_reward, tampered>>

add_transaction(t) ==
    LET out == AddOutcome(t)
    IN  /\ out.val = "True" => Len(pending_transactions) < MaxPending
        /\ pending_transactions' =
               IF out.val = "True" THEN Append(pending_transactions, t)
               ELSE pending_transactions
        /\ tx' = t
        /\ ret' = Ret("add_transaction", "", out.val, 0, out.cause)
        /\ UNCHANGED <<chain, difficulty, mining_reward, tampered>>

\* mine_pending_transactions putting the reward in front of the pool
mine_pending_transactions_RewardFirst(miner_address, t1, t2) ==
    LET reward_tx == Transaction(SYSTEM, miner_address, mining_reward, NoSignature, t1)
        pool == <<reward_tx>> \o pending_transactions
        block == mine(Block(Len(chain), pool, get_latest_block(chain).hash, t2), difficulty)
    IN  /\ Len(chain) < MaxChain
        /\ chain' = Append(chain, block)
        /\ pending_transactions' = <<>>
        /\ tx' = NoTx
        /\ ret' = Ret("mine_pending_transactions", miner_address, "None", 0, "none")
        /\ UNCHANGED <<difficulty, mining_reward, overspent, tampered>>

\* mine_pending_transactions inserting the new block in front of the chain
mine_pending_transactions_InsertFirst(miner_address, t1, t2) ==
    LET reward_tx == Transaction(SYSTEM, miner_address, mining_reward, NoSignature, t1)
        pool == Append(pending_transactions, reward_tx)
        block == mine(Block(Len(chain), pool, get_latest_block(chain).hash, t2), difficulty)
    IN  /\ Len(chain) < MaxChain
        /\ chain' = <<block>> \o chain
        /\ pending_transactions' = <<>>
        /\ tx' = NoTx
        /\ ret' = Ret("mine_pending_transactions", miner_address, "None", 0, "none")
        /\ UNCHANGED <<difficulty, mining_reward, overspent, tampered>>

\* mine_pending_transactions without its last line: the pool is not cleared
mine_pending_transactions_KeepPool(miner_address, t1, t2) ==
    LET reward_tx == Transaction(SYSTEM, miner_address, mining_reward, NoSignature, t1)
        pool == Append(pending_transactions, reward_tx)
        block == mine(Block(Len(chain), pool, get_latest_block(chain).hash, t2), difficulty)
    IN  /\ Len(chain) < MaxChain
        /\ chain' = Append(chain, block)
        /\ pending_transactions' = pending_transactions
        /\ tx' = NoTx
        /\ ret' = Ret("mine_pending_transactions", miner_address, "None", 0, "none")
        /\ UNCHANGED <<difficulty, mining_reward, overspent, tampered>>

\* t1 and t2 are the readings of time.time() in Transaction() and in Block()
mine_pending_transactions(miner_address, t1, t2) ==
    LET reward_tx == Transaction(SYSTEM, miner_address, mining_reward, NoSignature, t1)
        pool == Append(pending_transactions, reward_tx)
        block == mine(Block(Len(chain), pool, get_latest_block(chain).hash, t2), difficulty)
    IN  /\ Len(chain) < MaxChain
        /\ chain' = Append(chain, block)
        /\ pending_transactions' = <<>>
        /\ tx' = NoTx
        /\ ret' = Ret("mine_pending_transactions", miner_address, "None", 0, "none")
        /\ UNCHANGED <<difficulty, mining_reward, overspent, tampered>>

GetBalance(address) ==
    /\ tx' = NoTx
    /\ ret' = Ret("get_balance_of_address", address, "float",
                 get_balance_of_address(address), "none")
    /\ UNCHANGED <<chain, pending_transactions, difficulty, mining_reward,
                   overspent, tampered>>

IsChainValid ==
    LET r == is_chain_valid(chain)
    IN  /\ tx' = NoTx
        /\ ret' = Ret("is_chain_valid", "", IF r.ok THEN "True" ELSE "False", r.at, r.why)
        /\ UNCHANGED <<chain, pending_transactions, difficulty, mining_reward,
                       overspent, tampered>>

----------------------------------------------------------------------------
(* The transactions clients submit: transfers left unsigned, signed with   *)
(* the sender's key or with another key, or changed after signing, and      *)
(* transactions that name the mint sentinel as their sender.                *)

Unsigned ==
    {Transaction(s, r, a, NoSignature, t) :
        s \in Senders, r \in Recipients, a \in Amounts, t \in Times}

Signed ==
    UNION {{sign_transaction(u, k) : k \in PrivateKeys} :
              u \in {v \in Unsigned : v.sender_pub \in Wallets}}

Altered ==
    UNION {{[u EXCEPT !.amount = a] : a \in Amounts \ {u.amount}} :
              u \in {v \in Signed : PublicKeyOf(v.signature.key) = v.sender_pub}}

Mints ==
    {Transaction(SYSTEM, r, a, NoSignature, t) :
        r \in MintRecipients, a \in MintAmounts, t \in Times}

TxInputs == Unsigned \cup Signed \cup Altered \cup Mints

----------------------------------------------------------------------------
(* The ledger used through its operations *)

Init ==
    /\ difficulty \in Difficulties
    /\ mining_reward \in Rewards
    /\ \E now \in Times : chain = <<create_genesis_block(now)>>
    /\ pending_transactions = <<>>
    /\ tx = NoTx
    /\ ret = Ret("Blockchain", "", "None", 0, "none")
    /\ overspent = NoOverspent
    /\ tampered = -1

AddTransaction == \E t \in TxInputs : add_transaction(t) /\ UNCHANGED overspent

MinePending ==
    \E m \in Miners, t1 \in Times, t2 \in Times :
        t1 <= t2 /\ mine_pending_transactions(m, t1, t2)

Balance == \E a \in Addresses : GetBalance(a)

Next == AddTransaction \/ MinePending \/ Balance \/ IsChainValid

Spec == Init /\ [][Next]_vars

----------------------------------------------------------------------------
(* The same ledger, remembering the last transaction the balance check     *)
(* refused and the length of the chain at that call.                       *)

Submit ==
    \E t \in TxInputs :
        /\ add_transaction(t)
        /\ overspent' = IF AddOutcome(t).cause = "balance"
                        THEN [set |-> TRUE, tx |-> t, at |-> Len(chain)]
                        ELSE overspent

NextTracked == Submit \/ MinePending

SpecTracked == Init /\ [][NextTracked]_vars

----------------------------------------------------------------------------
(* The ledger with one mutation of a block from outside: a field of a      *)
(* block of the chain is overwritten and no stored hash is recomputed;     *)
(* the chain is then validated.                                            *)

\* an amount no transaction of the ledger carries
TamperAmounts == {0}

Tampering(c) ==
    /\ tampered = -1
    /\ chain' = c
    /\ UNCHANGED <<pending_transactions, difficulty, mining_reward, tx, ret, overspent>>

TamperNonce ==
    \E i \in 0..(Len(chain) - 1) :
        /\ tampered' = i
        /\ Tampering([chain EXCEPT ![i + 1].nonce = chain[i + 1].nonce + 1])

TamperPreviousHash ==
    \E i \in 0..(Len(chain) - 1), j \in {0, Len(chain)} :
        LET h == IF j = 0 THEN ZeroHash ELSE chain[j].hash
        IN  /\ h # chain[i + 1].previous_hash
            /\ tampered' = i
            /\ Tampering([chain EXCEPT ![i + 1].previous_hash = h])

TamperAmount ==
    \E i \in 0..(Len(chain) - 1), a \in TamperAmounts :
        \E k \in 1..Len(chain[i + 1].transactions) :
            /\ a # chain[i + 1].transactions[k].amount
            /\ tampered' = i
            /\ Tampering([chain EXCEPT ![i + 1].transactions[k].amount = a])

Honest ==
    \E t \in {u \in Signed \cup Mints : is_valid(u)} :
        add_transaction(t) /\ UNCHANGED overspent

NextTamper ==
    \/ tampered = -1 /\ Honest
    \/ tampered = -1 /\ MinePending
    \/ TamperNonce
    \/ TamperPreviousHash
    \/ TamperAmount
    \/ IsChainValid

SpecTamper == Init /\ [][NextTamper]_vars

----------------------------------------------------------------------------
(* A Transaction object in the hands of a client: constructed, signed,     *)
(* its attributes assigned, and asked whether it is valid.                 *)

TxSenders == {"A", SYSTEM, "zz"}
TxRecipients == {"A", "B"}
TxTimes == 0..(MaxClock + 1)

Called(op, val) == Ret(op, "", val, 0, "none")

NewTransaction ==
    \E s \in TxSenders, r \in TxRecipients, a \in Amounts,
       sig \in {NoSignature, BadSignature}, now \in TxTimes :
        /\ tx' = Transaction(s, r, a, sig, now)
        /\ ret' = Called("Transaction", "None")

SignTransaction ==
    \E sk \in PrivateKeys :
        /\ tx # NoTx
        /\ tx' = sign_transaction(tx, sk)
        /\ ret' = Called("sign_transaction", "None")

SetAmount ==
    \E a \in Amounts :
        /\ tx # NoTx
        /\ tx' = [tx EXCEPT !.amount = a]
        /\ ret' = Called("setattr", "None")

SetRecipient ==
    \E r \in TxRecipients :
        /\ tx # NoTx
        /\ tx' = [tx EXCEPT !.recipient_pub = r]
        /\ ret' = Called("setattr", "None")

SetTimestamp ==
    \E now \in TxTimes :
        /\ tx # NoTx
        /\ tx' = [tx EXCEPT !.timestamp = now]
        /\ ret' = Called("setattr", "None")

IsValid ==
    /\ tx # NoTx
    /\ tx' = tx
    /\ ret' = Called("is_valid", IF is_valid(tx) THEN "True" ELSE "False")

NextTx ==
    /\ NewTransaction \/ SignTransaction \/ SetAmount \/ SetRecipient \/ SetTimestamp
         \/ IsValid
    /\ UNCHANGED <<chain, pending_transactions, difficulty, mining_reward, overspent,
                   tampered>>

SpecTx == Init /\ [][NextTx]_vars

----------------------------------------------------------------------------
(* The ledger mined for any address, the mint sentinel's own name included: *)
(* miner_address is a string the caller chooses.                            *)

AnyMiners == Miners \cup {SYSTEM}

Transfer ==
    \E t \in {u \in Signed \cup Mints : is_valid(u)} :
        add_transaction(t) /\ UNCHANGED overspent

MineAny ==
    \E m \in AnyMiners, t1 \in Times, t2 \in Times :
        t1 <= t2 /\ mine_pending_transactions(m, t1, t2)

NextAnyMiner == Transfer \/ MineAny

SpecAnyMiner == Init /\ [][NextAnyMiner]_vars

----------------------------------------------------------------------------
(* Properties *)

AddStep == ret'.op = "add_transaction"
MineStep == ret'.op = "mine_pending_transactions"

Malformed(t) == t.sender_pub = "" \/ t.recipient_pub = ""

InPool(t, pool) == \E i \in 1..Len(pool) : pool[i] = t

InBlock(t, b) == \E k \in 1..Len(b.transactions) : b.transactions[k] = t

\* C1 (as amended): a call add_transaction(tx) whose sender is not 'SYSTEM' and whose
\* amount exceeds the sender's balance over chain and pool does not accept tx: it
\* returns False, or raises ValueError when the sender or the recipient is empty,
\* and it leaves the pending pool and the chain as they were.
C1_OverspendRefused ==
    [][(AddStep /\ Overspends(tx')) =>
          /\ ret'.val = (IF Malformed(tx') THEN "ValueError" ELSE "False")
          /\ pending_transactions' = pending_transactions
          /\ chain' = chain]_vars

\* C1 witness: the balance check has refused a transfer, on a ledger that has mined
C1_OverspendRefusedSeen ==
    /\ ret.op = "add_transaction"
    /\ ret.cause = "balance"
    /\ tx.amount > get_balance_of_address(tx.sender_pub)
    /\ Len(chain) > 1

\* C1 (as stated): such a call returns False, tx is not in the pending pool after
\* it, and tx is in no block appended after it (of the transactions the balance
\* check refused, the last one is followed through the later blocks).
C1_OverspendNeverMined ==
    /\ [][(AddStep /\ Overspends(tx')) =>
             /\ ret'.val = "False"
             /\ ~InPool(tx', pending_transactions')]_vars
    /\ [](overspent.set =>
             \A i \in (overspent.at + 1)..Len(chain) : ~InBlock(overspent.tx, chain[i]))

\* C2 (as stated): add_transaction accepts no validly signed or mint-sentinel
\* transaction with a negative amount, and leaves the pending pool unchanged.
C2_NegativeAmountRejected ==
    [][(AddStep /\ tx'.amount < 0 /\ is_valid(tx')) =>
          /\ ret'.val # "True"
          /\ pending_transactions' = pending_transactions]_vars

\* C3 (as stated): mine_pending_transactions on an empty pending pool appends no
\* block and leaves the chain, the pool and every balance unchanged.
C3_MineEmptyPoolNoOp ==
    [][(MineStep /\ pending_transactions = <<>>) =>
          /\ chain' = chain
          /\ pending_transactions' = pending_transactions
          /\ \A a \in Addresses :
                BalanceIn(chain', pending_transactions', a)
                    = BalanceIn(chain, pending_transactions, a)]_vars

\* C4: mine_pending_transactions(miner) on a non-empty pool P appends exactly one
\* block, whose index is the old chain length, whose previous_hash is the old tip's
\* hash and whose transactions are P in order followed by one reward transaction
\* ('SYSTEM' to miner, amount mining_reward); the pool is empty afterwards.
C4_MineEffect ==
    [][(MineStep /\ pending_transactions # <<>>) =>
          LET n == Len(chain)
              new == chain'[n + 1]
              m == Len(pending_transactions)
          IN  /\ Len(chain') = n + 1
              /\ \A i \in 1..n : chain'[i] = chain[i]
              /\ new.index = n
              /\ new.previous_hash = chain[n].hash
              /\ Len(new.transactions) = m + 1
              /\ \A k \in 1..m : new.transactions[k] = pending_transactions[k]
              /\ new.transactions[m + 1].sender_pub = SYSTEM
              /\ new.transactions[m + 1].recipient_pub = ret'.arg
              /\ new.transactions[m + 1].amount = mining_reward
              /\ pending_transactions' = <<>>]_vars

\* C4 witness: a pool of two different transactions has been mined into a block
C4_TwoMined ==
    /\ ret.op = "mine_pending_transactions"
    /\ Len(chain[Len(chain)].transactions) = 3
    /\ chain[Len(chain)].transactions[1] # chain[Len(chain)].transactions[2]

\* C5: every block after the first names its predecessor's hash, the genesis block
\* names the sentinel '0', and is_chain_valid() returns True.
C5_LedgerValid ==
    /\ chain[1].previous_hash = ZeroHash
    /\ \A i \in 2..Len(chain) : chain[i].previous_hash = chain[i - 1].hash
    /\ is_chain_valid(chain).ok

\* C5 witness: a chain of genesis and two mined blocks, the last with a transfer
C5_TwoBlocksLinked ==
    /\ Len(chain) >= 3
    /\ Len(chain[3].transactions) >= 2

\* C6: the stored hash of every block but genesis starts with `difficulty` zeros,
\* and rehashing any block with its stored nonce and fields gives its stored hash.
C6_Difficulty ==
    /\ \A i \in 2..Len(chain) : startswith(chain[i].hash, difficulty)
    /\ \A i \in 1..Len(chain) : calculate_hash(chain[i]) = chain[i].hash

\* C6 witness: a block that took a search (nonce above 0) at difficulty 1 or more
C6_SearchedBlock ==
    /\ Len(chain) >= 2
    /\ difficulty >= 1
    /\ chain[2].nonce > 0

\* C7 (as stated): once a field of a block of the chain (a transaction's amount, the
\* nonce, previous_hash) has been mutated, is_chain_valid() returns False and names
\* the index of the mutated block.
C7_TamperDetected ==
    tampered >= 0 =>
        /\ ~is_chain_valid(chain).ok
        /\ is_chain_valid(chain).at = tampered

\* C8 (as stated): the outcome of a rejection tells its cause: no transaction that
\* would be rejected for another cause gets the outcome the last rejection got.
C8_DistinctOutcomes ==
    (ret.op = "add_transaction" /\ ret.cause # "none") =>
        \A t \in TxInputs :
            AddOutcome(t).cause \notin {"none", ret.cause} => AddOutcome(t).val # ret.val

\* C9: a rejecting add_transaction leaves chain and pending pool as they were; an
\* accepting one appends exactly its transaction at the end of the pool.
C9_RejectionFrame ==
    [][AddStep =>
          /\ chain' = chain
          /\ ret'.val \in {"True", "False", "ValueError"}
          /\ ret'.val # "True" => pending_transactions' = pending_transactions
          /\ ret'.val = "True" => pending_transactions' = Append(pending_transactions, tx')
          /\ (Malformed(tx') \/ ~is_valid(tx') \/ Overspends(tx')) => ret'.val # "True"]_vars

\* C9 witness: a transfer was rejected for its balance while the pool held another
C9_RejectedWithPool ==
    /\ ret.op = "add_transaction"
    /\ ret.cause = "balance"
    /\ Len(pending_transactions) >= 1

\* the signature of t was made with the private key of t.sender_pub over the
\* fields t has now
SignedBySender(t) ==
    /\ t.signature.kind = "hex"
    /\ \E sk \in PrivateKeys : sk = t.signature.key /\ PublicKeyOf(sk) = t.sender_pub
    /\ t.signature.msg = <<t.amount, t.recipient_pub, t.sender_pub, t.timestamp>>

\* C10: is_valid() is True for sender 'SYSTEM', and otherwise exactly when the
\* signature is present and was made with the sender's private key over the current
\* fields; signing with the sender's key makes the transaction valid, and assigning
\* another amount, recipient or timestamp to a signed one makes it invalid.
C10_IsValidSound ==
    /\ [](ret.op = "is_valid" =>
             ret.val = (IF tx.sender_pub = SYSTEM \/ SignedBySender(tx)
                        THEN "True" ELSE "False"))
    /\ [][(ret'.op = "sign_transaction" /\ PublicKeyOf(tx'.signature.key) = tx'.sender_pub)
             => is_valid(tx')]_vars
    /\ [][(/\ ret'.op = "setattr"
           /\ tx.sender_pub # SYSTEM
           /\ SignedBySender(tx)
           /\ tx' # tx)
             => ~is_valid(tx')]_vars

\* C10 witness: is_valid() returned False for a transaction its sender signed and
\* whose timestamp was assigned afterwards
C10_AlteredTimestampInvalid ==
    /\ ret.op = "is_valid"
    /\ ret.val = "False"
    /\ tx.signature.kind = "hex"
    /\ PublicKeyOf(tx.signature.key) = tx.sender_pub
    /\ tx.signature.msg[1] = tx.amount
    /\ tx.signature.msg[2] = tx.recipient_pub
    /\ tx.signature.msg[4] # tx.timestamp

----------------------------------------------------------------------------
(* Balances *)

RECURSIVE SumBalances(_)
SumBalances(S) ==
    IF S = {} THEN 0
    ELSE LET a == CHOOSE x \in S : TRUE
         IN  get_balance_of_address(a) + SumBalances(S \ {a})

\* the amounts of the transactions of a list that 'SYSTEM' sent (by = "sender")
\* or received (by = "recipient"), summed
RECURSIVE AmountOver(_, _)
AmountOver(txs, by) ==
    IF txs = <<>> THEN 0
    ELSE (IF (by = "sender" /\ Head(txs).sender_pub = SYSTEM)
             \/ (by = "recipient" /\ Head(txs).recipient_pub = SYSTEM)
          THEN Head(txs).amount ELSE 0)
            + AmountOver(Tail(txs), by)

RECURSIVE AmountInChain(_, _)
AmountInChain(c, by) ==
    IF c = <<>> THEN 0
    ELSE AmountOver(Head(c).transactions, by) + AmountInChain(Tail(c), by)

\* the total amount of the transactions in chain and pool that 'SYSTEM' sent
Minted == AmountInChain(chain, "sender") + AmountOver(pending_transactions, "sender")

\* the total amount of the transactions in chain and pool that 'SYSTEM' received
Returned == AmountInChain(chain, "recipient") + AmountOver(pending_transactions, "recipient")

\* C11 (as amended): the balances of all addresses, 'SYSTEM' included, sum to zero;
\* the balances of the other addresses sum to the total amount 'SYSTEM' sent less
\* the total amount 'SYSTEM' received.
C11_Conservation ==
    /\ SumBalances(Addresses) = 0
    /\ SumBalances(Addresses \ {SYSTEM}) = Minted - Returned

\* C11 witness: value has moved between wallets and a reward went to 'SYSTEM' itself
C11_MovedAndReturned ==
    /\ get_balance_of_address("B") # 0
    /\ Returned > 0
    /\ Len(chain) >= 3

\* C11 (as stated): the balances of the addresses other than 'SYSTEM' sum to the
\* total amount of the 'SYSTEM' transactions in chain and pool.
C11_NonMintSumIsMinted ==
    SumBalances(Addresses \ {SYSTEM}) = Minted

----------------------------------------------------------------------------
(* Mint sentinel *)

\* the positions of a list of transactions whose sender is 'SYSTEM'
MintPositions(txs) == {i \in 1..Len(txs) : txs[i].sender_pub = SYSTEM}

\* C12: no transaction of the pending pool has sender 'SYSTEM', and every block
\* after the genesis block holds exactly one transaction with sender 'SYSTEM',
\* of amount mining_reward, as its last transaction.
C12_MintOnlyReward ==
    /\ MintPositions(pending_transactions) = {}
    /\ \A i \in 2..Len(chain) :
          LET txs == chain[i].transactions
          IN  /\ MintPositions(txs) = {Len(txs)}
              /\ txs[Len(txs)].amount = mining_reward

----------------------------------------------------------------------------
(* The end-to-end scenario *)

MintToA(t) == t.sender_pub = SYSTEM /\ t.recipient_pub = "A" /\ t.amount = 100

TenFromAToB(t) ==
    /\ t.sender_pub = "A" /\ t.recipient_pub = "B" /\ t.amount = 10
    /\ SignedBySender(t)

\* the ledger after the first k steps of the scenario (k = 0, 1, 2)
ScenarioAt(k) ==
    /\ Len(chain) = 1
    /\ mining_reward = 50
    /\ Len(pending_transactions) = k
    /\ k >= 1 => MintToA(pending_transactions[1])
    /\ k >= 2 => TenFromAToB(pending_transactions[2])

\* C13: on a fresh ledger with reward 50, a 'SYSTEM' transaction of 100 to A is
\* accepted, then a signed transaction of 10 from A to B is accepted, and when M
\* then mines, the chain is the genesis block plus one block, the balances are
\* A = 90, B = 10, M = 50, the pool is empty and is_chain_valid() is True.
C13_EndToEnd ==
    [][/\ (ScenarioAt(0) /\ AddStep /\ MintToA(tx')) =>
              (ret'.val = "True" /\ pending_transactions' = <<tx'>>)
       /\ (ScenarioAt(1) /\ AddStep /\ TenFromAToB(tx')) =>
              (ret'.val = "True"
                 /\ pending_transactions' = Append(pending_transactions, tx'))
       /\ (ScenarioAt(2) /\ MineStep /\ ret'.arg = "M") =>
              (/\ Len(chain') = 2
               /\ chain'[1] = chain[1]
               /\ BalanceIn(chain', pending_transactions', "A") = 90
               /\ BalanceIn(chain', pending_transactions', "B") = 10
               /\ BalanceIn(chain', pending_transactions', "M") = 50
               /\ pending_transactions' = <<>>
               /\ is_chain_valid(chain').ok)]_vars

\* C13 witness: the scenario has been run to its end
C13_ScenarioDone ==
    /\ ret.op = "mine_pending_transactions" /\ ret.arg = "M"
    /\ Len(chain) = 2
    /\ Len(chain[2].transactions) = 3
    /\ MintToA(chain[2].transactions[1])
    /\ TenFromAToB(chain[2].transactions[2])
    /\ get_balance_of_address("A") = 90

----------------------------------------------------------------------------
(* The chain as a log *)

\* C14: every operation leaves the blocks already in the chain as they were, in
\* place; the chain never gets shorter, and it gets longer only in
\* mine_pending_transactions, which adds exactly one block.
C14_AppendOnly ==
    [][/\ Len(chain') >= Len(chain)
       /\ \A i \in 1..Len(chain) : chain'[i] = chain[i]
       /\ Len(chain') # Len(chain) => MineStep
       /\ MineStep => Len(chain') = Len(chain) + 1]_vars

\* C14 witness: a transaction has entered the pool after a block was appended
C14_PoolGrewAfterBlock ==
    /\ ret.op = "add_transaction" /\ ret.val = "True"
    /\ Len(chain) >= 2
    /\ Len(chain[2].transactions) >= 2
    /\ pending_transactions # <<>>

----------------------------------------------------------------------------
(* The nonce search *)

\* the block as Block() made it, before mine() ran
Fresh(b) == Block(b.index, b.transactions, b.previous_hash, b.timestamp)

\* C15: for every mined block, the stored hash is calculate_hash() of the block
\* with its stored nonce and starts with `difficulty` zeros, no smaller nonce from
\* 0 on gives such a hash, at difficulty 0 the nonce is 0 and the hash is the one
\* Block() computed, and the block is the one mine() gives for its fields.
C15_FirstNonce ==
    \A i \in 2..Len(chain) :
        LET b == chain[i]
        IN  /\ b.hash = calculate_hash(b)
            /\ startswith(b.hash, difficulty)
            /\ \A n \in 0..(b.nonce - 1) :
                  ~startswith(calculate_hash([b EXCEPT !.nonce = n]), difficulty)
            /\ difficulty = 0 => (b.nonce = 0 /\ b.hash = Fresh(b).hash)
            /\ b = mine(Fresh(b), difficulty)

\* C15 witness: a mined block whose search passed over at least two nonces
C15_LongSearch ==
    /\ Len(chain) >= 2
    /\ difficulty >= 1
    /\ \E i \in 2..Len(chain) : chain[i].nonce >= 2

----------------------------------------------------------------------------
(* Solvency *)

\* C16: the balance of every address other than 'SYSTEM' is at least 0.
C16_NoNegativeBalance ==
    \A a \in Addresses \ {SYSTEM} : get_balance_of_address(a) >= 0

----------------------------------------------------------------------------
(* Mining and balances *)

\* the change of the balance of an address over a step
BalanceChange(a) ==
    BalanceIn(chain', pending_transactions', a)
        - BalanceIn(chain, pending_transactions, a)

\* C17 (as amended): mine_pending_transactions(m) leaves the balance of every
\* address other than m and 'SYSTEM' as it was; when m is not 'SYSTEM' it raises
\* m's balance by mining_reward and lowers 'SYSTEM''s by mining_reward; when m is
\* 'SYSTEM' no balance changes.
C17_MiningBalances ==
    [][MineStep =>
          LET m == ret'.arg
          IN  /\ \A a \in Addresses \ {m, SYSTEM} : BalanceChange(a) = 0
              /\ m # SYSTEM => /\ BalanceChange(m) = mining_reward
                               /\ BalanceChange(SYSTEM) = 0 - mining_reward
              /\ m = SYSTEM => BalanceChange(SYSTEM) = 0]_vars

\* C17 witness: M has mined a block of moved transactions after 'SYSTEM' mined one
C17_BothMined ==
    /\ ret.op = "mine_pending_transactions" /\ ret.arg = "M"
    /\ Len(chain) = 3
    /\ chain[2].transactions[Len(chain[2].transactions)].recipient_pub = SYSTEM
    /\ Len(chain[3].transactions) >= 2
    /\ get_balance_of_address("B") # 0

\* C17 (as stated): for every miner address m, mine_pending_transactions(m) leaves
\* the balance of every address other than m and 'SYSTEM' as it was, raises m's
\* balance by mining_reward and lowers 'SYSTEM''s by mining_reward.
C17_MinerGainsSystemLoses ==
    [][MineStep =>
          /\ \A a \in Addresses \ {ret'.arg, SYSTEM} : BalanceChange(a) = 0
          /\ BalanceChange(ret'.arg) = mining_reward
          /\ BalanceChange(SYSTEM) = 0 - mining_reward]_vars

====
